---- MODULE Spec2Model ----
(***************************************************************************)
(* A model of beamng_control/bridge.py (class BeamNGBridge): the step      *)
(* action server callback, the classical sensor attachment, the scenario   *)
(* lifecycle (start_scenario), the service handlers, the sensor-definition *)
(* catalog (_setup_sensor_defs) and the node's main thread with the        *)
(* publish loop (main, work).                                              *)
(*                                                                         *)
(* The simulation engine (beamngpy), rospy/actionlib and the json files    *)
(* are outside the repository: what they return is an input of the action  *)
(* that calls them, what the bridge asks of them is appended to a log.     *)
(***************************************************************************)
EXTENDS Integers, Sequences, FiniteSets, TLC

VARIABLES
    \* ---- step(): the action server callback and its goal
    st_pc,                  \* position in step()
    total_number_of_steps,  \* goal.total_number_of_steps
    feedback_cycle_size,    \* goal.feedback_cycle_size
    step_counter,           \* local step_counter
    st_i,                   \* loop variable i of range(0, imax)
    imax,                   \* local imax
    success,                \* local success
    preempt_requested,      \* what _stepAS.is_preempt_requested() returns
    as_log,                 \* engine step calls, feedbacks and results, in order
    \* ---- get_sensor_classical_from_dict(): one vehicle
    at_pc,
    sensors_classical,      \* v_spec['sensors_classical']
    at_out,                 \* what the call did to the vehicle
    \* ---- the bridge object
    running,                \* self.running
    publishers,             \* self._publishers
    vehicle_publisher,      \* self._vehicle_publisher
    static_tf_frames,       \* self._static_tf_frames
    \* ---- start_scenario(): the call in progress
    ss_pc,                  \* position in start_scenario()
    scenario_spec,          \* local scenario_spec (the loaded document)
    on_scenario_start,      \* the hooks decode_scenario() returned
    vehicle_list,           \* the vehicles decode_scenario() returned
    ss_v,                   \* vehicle loop index
    ss_h,                   \* hook loop index
    calls,                  \* number of start_scenario calls begun
    ss_log,                 \* what this call logged and asked of the engine
    ss_pre,                 \* the bridge's fields when this call began
    \* ---- service handlers
    resp,                   \* the last request served and its response
    unconfirmed,            \* pause / resume has logged 'No confirmation available'
    \* ---- _setup_sensor_defs()
    sd_pc,                  \* position in _setup_sensor_defs()
    sensor_paths,           \* the documents behind sensor_paths, in list order
    sd_i,                   \* loop index over sensor_paths
    sensor_defs,            \* local sensor_defs, at the end self._sensor_defs
    \* ---- main() and work(): the main thread
    main_pc,                \* position in main() / work()
    caller,                 \* who called the start_scenario in progress
    shutdown,               \* what rospy.is_shutdown() returns
    now,                    \* what rospy.Time.now() returns
    current_time,           \* local current_time of the tick
    wk_k,                   \* index of the for loop the tick is in
    wk_list,                \* the list object line 471 iterates, once replaced
    wk_live,                \* whether that object still is self._publishers
    wk_log,                 \* what this tick broadcast and published, in order
    wk_pre                  \* the bridge's fields when this tick began

stepVars   == <<st_pc, total_number_of_steps, feedback_cycle_size, step_counter,
                st_i, imax, success, preempt_requested, as_log>>
attachVars == <<at_pc, sensors_classical, at_out>>
bridgeVars == <<running, publishers, vehicle_publisher, static_tf_frames>>
callVars   == <<ss_pc, scenario_spec, on_scenario_start, vehicle_list, ss_v,
                ss_h, calls, ss_log, ss_pre>>
svcVars    == <<resp, unconfirmed>>
defsVars   == <<sd_pc, sensor_paths, sd_i, sensor_defs>>
workVars   == <<main_pc, caller, shutdown, now, current_time, wk_k, wk_list,
                wk_live, wk_log, wk_pre>>
vars       == <<stepVars, attachVars, bridgeVars, callVars, svcVars, defsVars,
                workVars>>

(***************************************************************************)
(* Bounds of the model.                                                    *)
(***************************************************************************)
MaxN == 5           \* largest total_number_of_steps of a goal
MaxF == 3           \* largest feedback_cycle_size of a goal
MaxNeg == 2         \* feedback_cycle_size is drawn from -MaxNeg .. MaxF
MaxSpecs == 3       \* longest sensors_classical list of a vehicle
NumNames == 2       \* number of distinct sensor names
MaxVehicles == 2    \* most vehicles in a scenario document (and in the engine)
MaxAuto == 1        \* longest sensors_automation list of a vehicle
MaxStarts == 2      \* number of start_scenario calls in a behaviour
ArityDev == 1       \* request arrays are up to ArityDev longer or shorter than asked
NumKeys == 2        \* number of distinct keys of the sensor-definition documents
NumVals == 2        \* number of distinct values a key can have
MaxPaths == 2       \* longest sensor_paths list
MaxTime == 2        \* the clock (rospy.Time.now) runs from 0 to MaxTime

PosLen == 3         \* the length spawn / teleport ask of req.pos
RotLen == 4         \* the length spawn / teleport ask of req.rot_quat

Min(a, b) == IF a <= b THEN a ELSE b

\* Python's a // b for b # 0: the quotient rounded towards minus infinity.
PyFloorDiv(a, b) == IF b > 0 THEN a \div b ELSE (-a) \div (-b)

\* Python's a % b for b # 0: the remainder has the sign of b.
PyMod(a, b) == a - b * PyFloorDiv(a, b)

(***************************************************************************)
(* step(goal): bridge.py 406-437                                           *)
(***************************************************************************)
StepInitState ==
    /\ st_pc = "idle"
    /\ total_number_of_steps = 0
    /\ feedback_cycle_size = 0
    /\ step_counter = 0
    /\ st_i = 0
    /\ imax = 0
    /\ success = TRUE
    /\ preempt_requested = FALSE
    /\ as_log = <<>>

\* imax with the turn for the rest forgotten.
ImaxNoRest(N, F) == PyFloorDiv(N, F)

\* imax as lines 412-414 compute it.
Imax(N, F) ==
    LET q == PyFloorDiv(N, F)
        rest == PyMod(N, F)
    IN  IF rest # 0 THEN q + 1 ELSE q

\* The goal arrives and step() runs to the top of its loop (407-414). A
\* feedback_cycle_size of 0 raises ZeroDivisionError at line 412.
StepBegin ==
    /\ st_pc = "idle"
    /\ \E N \in 0..MaxN, F \in (-MaxNeg)..MaxF :
        /\ total_number_of_steps' = N
        /\ feedback_cycle_size' = F
        /\ success' = TRUE
        /\ step_counter' = 0
        /\ st_i' = 0
        /\ IF F = 0
             THEN /\ imax' = 0
                  /\ st_pc' = "raised"
                  /\ as_log' = <<[ev |-> "ZeroDivisionError", n |-> 0]>>
             ELSE /\ imax' = Imax(N, F)
                  /\ st_pc' = "check"
                  /\ as_log' = <<>>
    /\ UNCHANGED preempt_requested

\* The client cancels the goal: from now on is_preempt_requested() is true.
StepCancel ==
    /\ st_pc \in {"check", "engine", "feedback"}
    /\ ~preempt_requested
    /\ preempt_requested' = TRUE
    /\ UNCHANGED <<st_pc, total_number_of_steps, feedback_cycle_size, step_counter,
                   st_i, imax, success, as_log>>

\* A loop head that does not look at the cancellation.
SeesPreemptNever(req) == FALSE

\* Whether the loop head observes the cancellation (line 417).
SeesPreempt(req) == req

\* for i in range(0, imax): the loop head and the preemption check (416-423).
StepCheck ==
    /\ st_pc = "check"
    /\ IF st_i >= imax
         THEN /\ st_pc' = "finish"
              /\ UNCHANGED <<success, as_log>>
         ELSE IF SeesPreempt(preempt_requested)
         THEN /\ as_log' = Append(as_log, [ev |-> "preempted", n |-> step_counter])
              /\ success' = FALSE
              /\ st_pc' = "finish"
         ELSE /\ st_pc' = "engine"
              /\ UNCHANGED <<success, as_log>>
    /\ UNCHANGED <<total_number_of_steps, feedback_cycle_size, step_counter, st_i,
                   imax, preempt_requested>>

\* A chunk that is always a whole feedback cycle.
StepSizeFull(N, F, done) == F

\* The size of the next chunk (424-425).
StepSize(N, F, done) == Min(N - done, F)

\* game_client.step(step_size) and the counter (424-427).
StepEngine ==
    /\ st_pc = "engine"
    /\ LET step_size == StepSize(total_number_of_steps, feedback_cycle_size,
                                 step_counter)
       IN  /\ as_log' = Append(as_log, [ev |-> "step", n |-> step_size])
           /\ step_counter' = step_counter + step_size
    /\ st_pc' = "feedback"
    /\ UNCHANGED <<total_number_of_steps, feedback_cycle_size, st_i, imax, success,
                   preempt_requested>>

\* feedback.steps_completed = step_counter; publish_feedback (430-431).
StepFeedback ==
    /\ st_pc = "feedback"
    /\ as_log' = Append(as_log, [ev |-> "feedback", n |-> step_counter])
    /\ st_i' = st_i + 1
    /\ st_pc' = "check"
    /\ UNCHANGED <<total_number_of_steps, feedback_cycle_size, step_counter, imax,
                   success, preempt_requested>>

\* if success: set_succeeded(result) (433-437).
StepFinish ==
    /\ st_pc = "finish"
    /\ as_log' = IF success
                   THEN Append(as_log, [ev |-> "succeeded", n |-> step_counter])
                   ELSE as_log
    /\ st_pc' = "done"
    /\ UNCHANGED <<total_number_of_steps, feedback_cycle_size, step_counter, st_i,
                   imax, success, preempt_requested>>

(***************************************************************************)
(* get_sensor_classical_from_dict(v_spec, vehicle): bridge.py 119-155      *)
(*                                                                         *)
(* A sensor spec is [name, base]: base = 0 stands for a spec without the   *)
(* 'base sensor' key. get_sensor (sensorHelper) is taken to return a       *)
(* sensor; vehicle.attach_sensor(name, s) stores it under name.            *)
(***************************************************************************)
SeqsUpTo(S, n) == UNION {[1..k -> S] : k \in 0..n}

SensorNames == 1..NumNames

SensorSpecs == [name : SensorNames, base : {0} \cup SensorNames]

NoAttach == [sensors |-> {}, attached |-> <<>>, errors |-> <<>>]

\* The first loop (130-139): every primary spec is attached, in order.
RECURSIVE AttachPrimary(_, _, _)
AttachPrimary(coll, k, acc) ==
    IF k > Len(coll) THEN acc
    ELSE AttachPrimary(coll, k + 1,
            [acc EXCEPT !.sensors = @ \cup {coll[k].name},
                        !.attached = Append(@, coll[k].name)])

\* The second loop (140-154): a base that is not in vehicle.sensors is
\* logged; the noise sensor is built and attached in both branches.
RECURSIVE AttachNoise(_, _, _)
AttachNoise(noise, k, acc) ==
    IF k > Len(noise) THEN acc
    ELSE LET n_spec == noise[k]
             found == n_spec.base \in acc.sensors
             errs == IF found THEN acc.errors ELSE Append(acc.errors, n_spec.base)
         IN  AttachNoise(noise, k + 1,
                [sensors |-> acc.sensors \cup {n_spec.name},
                 attached |-> Append(acc.attached, n_spec.name),
                 errors |-> errs])

GetSensorClassicalFromDict(specs) ==
    LET sensor_collection == SelectSeq(specs, LAMBDA s : s.base = 0)
        noise_sensors == SelectSeq(specs, LAMBDA s : s.base # 0)
    IN  AttachNoise(noise_sensors, 1, AttachPrimary(sensor_collection, 1, NoAttach))

AttachInitState ==
    /\ at_pc = "idle"
    /\ sensors_classical = <<>>
    /\ at_out = NoAttach

\* decode_scenario reaches a vehicle with this sensors_classical list.
AttachCall ==
    /\ at_pc = "idle"
    /\ \E specs \in SeqsUpTo(SensorSpecs, MaxSpecs) : sensors_classical' = specs
    /\ at_pc' = "called"
    /\ UNCHANGED at_out

AttachRun ==
    /\ at_pc = "called"
    /\ at_out' = GetSensorClassicalFromDict(sensors_classical)
    /\ at_pc' = "done"
    /\ UNCHANGED sensors_classical

(***************************************************************************)
(* The bridge object after __init__: bridge.py 53-58                       *)
(***************************************************************************)
\* self._vehicle_publisher = None
NoPublisher == [epoch |-> 0, vid |-> 0]

BridgeInitState ==
    /\ running = FALSE
    /\ publishers = <<>>
    /\ vehicle_publisher = NoPublisher
    /\ static_tf_frames = <<>>

Snapshot == [running |-> running, publishers |-> publishers,
             vehicle_publisher |-> vehicle_publisher,
             static_tf_frames |-> static_tf_frames]

NoSnapshot == [running |-> FALSE, publishers |-> <<>>,
               vehicle_publisher |-> NoPublisher, static_tf_frames |-> <<>>]

(***************************************************************************)
(* Scenario documents. A vehicle spec carries its sensors_automation list, *)
(* each entry "pub" (get_sensor returns a publisher class), "nopub" (it    *)
(* returns None for the publisher) or "noise" (the spec has a 'base        *)
(* sensor' key). "absent" stands for a key the document does not have.     *)
(***************************************************************************)
AutoKinds == {"pub", "nopub", "noise"}

VehicleSpecs == [auto : SeqsUpTo(AutoKinds, MaxAuto)]

NetVizVals == {"absent", "on", "off"}

ModeVals == {"absent", "paused", "running"}

Docs == [vehicles : SeqsUpTo(VehicleSpecs, MaxVehicles),
         weather : BOOLEAN, tod : BOOLEAN,
         netviz : NetVizVals, mode : ModeVals]

\* The documents of the specification that also runs the service handlers:
\* no optional key, at most one vehicle, with one sensor that has a publisher.
PlainDocs == {d \in Docs : /\ Len(d.vehicles) <= 1
                           /\ ~d.weather /\ ~d.tod
                           /\ d.netviz = "absent" /\ d.mode = "absent"
                           /\ \A i \in 1..Len(d.vehicles) :
                                d.vehicles[i].auto = <<"pub">>}

\* The documents of the specification that also runs the publish loop: up
\* to MaxVehicles vehicles with one sensor that has a publisher each, with
\* or without the network visualization and the weather preset, no other
\* optional key.
NodeDocs == {d \in Docs : /\ ~d.tod
                          /\ d.netviz # "off" /\ d.mode = "absent"
                          /\ \A i \in 1..Len(d.vehicles) :
                               d.vehicles[i].auto = <<"pub">>}

NoDoc == [vehicles |-> <<>>, weather |-> FALSE, tod |-> FALSE,
          netviz |-> "absent", mode |-> "absent"]

Ev(e, a, b) == [ev |-> e, a |-> a, b |-> b]

CallInitState ==
    /\ ss_pc = "idle"
    /\ scenario_spec = NoDoc
    /\ on_scenario_start = <<>>
    /\ vehicle_list = <<>>
    /\ ss_v = 0
    /\ ss_h = 0
    /\ calls = 0
    /\ ss_log = <<>>
    /\ ss_pre = NoSnapshot

(***************************************************************************)
(* start_scenario(file_name): bridge.py 277-297, with decode_scenario      *)
(* (244-275) and set_sensor_automation_from_dict (181-213). A publisher    *)
(* or frame carries the number of the call that made it (epoch).           *)
(***************************************************************************)
\* An entry that keeps the old list.
KeepPublishers(old) == old

\* What line 278 leaves in self._publishers.
ResetPublishers(old) == <<>>

\* Line 278 with the vehicle publisher cleared as well.
SS_BeginClearVehicle ==
    /\ ss_pc = "idle"
    /\ calls < MaxStarts
    /\ calls' = calls + 1
    /\ ss_pre' = Snapshot
    /\ publishers' = ResetPublishers(publishers)
    /\ vehicle_publisher' = NoPublisher
    /\ ss_log' = <<>>
    /\ ss_pc' = "load"
    /\ UNCHANGED <<running, static_tf_frames, scenario_spec,
                   on_scenario_start, vehicle_list, ss_v, ss_h>>

\* Line 278.
SS_Begin ==
    /\ ss_pc = "idle"
    /\ calls < MaxStarts
    /\ calls' = calls + 1
    /\ ss_pre' = Snapshot
    /\ publishers' = ResetPublishers(publishers)
    /\ ss_log' = <<>>
    /\ ss_pc' = "load"
    /\ UNCHANGED <<running, vehicle_publisher, static_tf_frames, scenario_spec,
                   on_scenario_start, vehicle_list, ss_v, ss_h>>

\* Lines 279-281 and _scenario_from_json (234-242): the file is missing, or
\* it holds one of the documents of D.
SS_Load(D) ==
    /\ ss_pc = "load"
    /\ \/ /\ ss_log' = Append(ss_log, Ev("logerr", 0, 0))
          /\ ss_pc' = "ret_abort"
          /\ UNCHANGED <<scenario_spec, ss_v>>
       \/ /\ \E d \in D : scenario_spec' = d
          /\ ss_pc' = "decode"
          /\ ss_v' = 1
          /\ UNCHANGED ss_log
    /\ UNCHANGED <<bridgeVars, on_scenario_start, vehicle_list, ss_h, calls, ss_pre>>

\* One turn of the loop of decode_scenario (249-258).
SS_DecodeVehicle ==
    /\ ss_pc = "decode"
    /\ ss_v <= Len(scenario_spec.vehicles)
    /\ ss_log' = ss_log \o <<Ev("attach_classical", ss_v, 0), Ev("add_vehicle", ss_v, 0)>>
    /\ vehicle_publisher' = [epoch |-> calls, vid |-> ss_v]
    /\ vehicle_list' = Append(vehicle_list, ss_v)
    /\ ss_v' = ss_v + 1
    /\ UNCHANGED <<running, publishers, static_tf_frames, ss_pc, scenario_spec,
                   on_scenario_start, ss_h, calls, ss_pre>>

\* on_scenario_start as lines 260-271 build it.
Hooks(d) ==
    (IF d.weather THEN <<"weather_presets">> ELSE <<>>)
        \o (IF d.tod THEN <<"tod">> ELSE <<>>)

NetworkPublisher(epoch) == [kind |-> "network", epoch |-> epoch, vid |-> 0, name |-> 0]

\* The rest of decode_scenario with the automation sensors set up right
\* after it, the engine's make / load / start left for later.
SS_DecodeOptionsAutoFirst ==
    /\ ss_pc = "decode"
    /\ ss_v > Len(scenario_spec.vehicles)
    /\ on_scenario_start' = Hooks(scenario_spec)
    /\ publishers' = IF scenario_spec.netviz = "on"
                       THEN Append(publishers, NetworkPublisher(calls))
                       ELSE publishers
    /\ ss_pc' = "auto"
    /\ ss_v' = 1
    /\ UNCHANGED <<running, vehicle_publisher, static_tf_frames, scenario_spec,
                   vehicle_list, ss_h, calls, ss_log, ss_pre>>

\* The rest of decode_scenario (260-275).
SS_DecodeOptions ==
    /\ ss_pc = "decode"
    /\ ss_v > Len(scenario_spec.vehicles)
    /\ on_scenario_start' = Hooks(scenario_spec)
    /\ publishers' = IF scenario_spec.netviz = "on"
                       THEN Append(publishers, NetworkPublisher(calls))
                       ELSE publishers
    /\ ss_pc' = "engine"
    /\ UNCHANGED <<running, vehicle_publisher, static_tf_frames, scenario_spec,
                   vehicle_list, ss_v, ss_h, calls, ss_log, ss_pre>>

\* Lines 283-285 with the run flag set as soon as the engine has started
\* the scenario, ahead of the automation sensors.
SS_EngineSetsRunning ==
    /\ ss_pc = "engine"
    /\ ss_log' = ss_log \o <<Ev("make", 0, 0), Ev("load_scenario", 0, 0),
                             Ev("start_scenario", 0, 0)>>
    /\ running' = TRUE
    /\ ss_pc' = "auto"
    /\ ss_v' = 1
    /\ UNCHANGED <<publishers, vehicle_publisher, static_tf_frames, scenario_spec,
                   on_scenario_start, vehicle_list, ss_h, calls, ss_pre>>

\* Lines 283-285: scenario.make, load_scenario, start_scenario on the engine.
SS_Engine ==
    /\ ss_pc = "engine"
    /\ ss_log' = ss_log \o <<Ev("make", 0, 0), Ev("load_scenario", 0, 0),
                             Ev("start_scenario", 0, 0)>>
    /\ ss_pc' = "auto"
    /\ ss_v' = 1
    /\ UNCHANGED <<bridgeVars, scenario_spec, on_scenario_start, vehicle_list, ss_h,
                   calls, ss_pre>>

SensorPublisher(epoch, vid, name) ==
    [kind |-> "sensor", epoch |-> epoch, vid |-> vid, name |-> name]

StaticFrame(epoch, vid, name) == [epoch |-> epoch, vid |-> vid, name |-> name]

\* The inner loop of set_sensor_automation_from_dict (193-213) over the
\* sensors_automation list of vehicle vid, from entry k on: acc is
\* [frames, pubs, log].
RECURSIVE AutoSensors(_, _, _, _, _)
AutoSensors(auto, k, epoch, vid, acc) ==
    IF k > Len(auto) THEN acc
    ELSE IF auto[k] = "noise" THEN AutoSensors(auto, k + 1, epoch, vid, acc)
    ELSE LET got == [acc EXCEPT !.log = Append(@, Ev("attach_automation", vid, k))]
             kept == IF auto[k] = "pub"
                       THEN [got EXCEPT !.frames = Append(@, StaticFrame(epoch, vid, k)),
                                        !.pubs = Append(@, SensorPublisher(epoch, vid, k))]
                       ELSE got
         IN  AutoSensors(auto, k + 1, epoch, vid, kept)

\* One turn of the outer loop of set_sensor_automation_from_dict (182-213):
\* the vehicles of zip(scenario_spec['vehicles'], vehicle_list).
SS_Automation ==
    /\ ss_pc = "auto"
    /\ ss_v <= Min(Len(scenario_spec.vehicles), Len(vehicle_list))
    /\ LET out == AutoSensors(scenario_spec.vehicles[ss_v].auto, 1, calls,
                              vehicle_list[ss_v],
                              [frames |-> static_tf_frames, pubs |-> publishers,
                               log |-> ss_log])
       IN  /\ static_tf_frames' = out.frames
           /\ publishers' = out.pubs
           /\ ss_log' = out.log
    /\ ss_v' = ss_v + 1
    /\ UNCHANGED <<running, vehicle_publisher, ss_pc, scenario_spec, on_scenario_start,
                   vehicle_list, ss_h, calls, ss_pre>>

\* Line 288: the automation sensors are done, the hooks are next.
SS_AutomationDone ==
    /\ ss_pc = "auto"
    /\ ss_v > Min(Len(scenario_spec.vehicles), Len(vehicle_list))
    /\ ss_pc' = "hooks"
    /\ ss_h' = 1
    /\ UNCHANGED <<bridgeVars, scenario_spec, on_scenario_start, vehicle_list, ss_v,
                   calls, ss_log, ss_pre>>

\* Lines 288-289: one hook.
SS_Hook ==
    /\ ss_pc = "hooks"
    /\ ss_h <= Len(on_scenario_start)
    /\ ss_log' = Append(ss_log, Ev(on_scenario_start[ss_h], 0, 0))
    /\ ss_h' = ss_h + 1
    /\ UNCHANGED <<bridgeVars, ss_pc, scenario_spec, on_scenario_start, vehicle_list,
                   ss_v, calls, ss_pre>>

\* Lines 291-295 with the test turned round: pause unless the mode is
\* 'running'.
SS_ModePauseUnlessRunning ==
    /\ ss_pc = "hooks"
    /\ ss_h > Len(on_scenario_start)
    /\ ss_log' = IF scenario_spec.mode # "running"
                   THEN Append(ss_log, Ev("pause", 0, 0))
                   ELSE ss_log
    /\ ss_pc' = "set_running"
    /\ UNCHANGED <<bridgeVars, scenario_spec, on_scenario_start, vehicle_list, ss_v,
                   ss_h, calls, ss_pre>>

\* Lines 291-295.
SS_Mode ==
    /\ ss_pc = "hooks"
    /\ ss_h > Len(on_scenario_start)
    /\ ss_log' = IF scenario_spec.mode = "paused"
                   THEN Append(ss_log, Ev("pause", 0, 0))
                   ELSE ss_log
    /\ ss_pc' = "set_running"
    /\ UNCHANGED <<bridgeVars, scenario_spec, on_scenario_start, vehicle_list, ss_v,
                   ss_h, calls, ss_pre>>

\* Line 297.
SS_SetRunning ==
    /\ ss_pc = "set_running"
    /\ running' = TRUE
    /\ ss_pc' = "ret_ok"
    /\ UNCHANGED <<publishers, vehicle_publisher, static_tf_frames, scenario_spec,
                   on_scenario_start, vehicle_list, ss_v, ss_h, calls, ss_log, ss_pre>>

\* An engine call of lines 283-293 (get_sensor of line 201 included) raises: start_scenario catches nothing,
\* the error leaves it.
SS_Raise ==
    /\ \/ ss_pc = "engine"
       \/ /\ ss_pc = "auto"
          /\ ss_v <= Min(Len(scenario_spec.vehicles), Len(vehicle_list))
          /\ \E k \in 1..Len(scenario_spec.vehicles[ss_v].auto) :
                scenario_spec.vehicles[ss_v].auto[k] # "noise"
       \/ /\ ss_pc = "hooks"
          /\ \/ ss_h <= Len(on_scenario_start)
             \/ scenario_spec.mode = "paused"
    /\ ss_log' = Append(ss_log, Ev("raised", 0, 0))
    /\ ss_pc' = "ret_raised"
    /\ UNCHANGED <<bridgeVars, scenario_spec, on_scenario_start, vehicle_list, ss_v,
                   ss_h, calls, ss_pre>>

Returned == ss_pc \in {"ret_abort", "ret_ok", "ret_raised"}

\* start_scenario has returned: its locals are gone.
SS_Return ==
    /\ Returned
    /\ ss_pc' = "idle"
    /\ scenario_spec' = NoDoc
    /\ on_scenario_start' = <<>>
    /\ vehicle_list' = <<>>
    /\ ss_v' = 0
    /\ ss_h' = 0
    /\ ss_log' = <<>>
    /\ ss_pre' = NoSnapshot
    /\ UNCHANGED <<bridgeVars, calls>>

Lifecycle(D) ==
    \/ SS_Begin
    \/ SS_Load(D)
    \/ SS_DecodeVehicle
    \/ SS_DecodeOptions
    \/ SS_Engine
    \/ SS_Automation
    \/ SS_AutomationDone
    \/ SS_Hook
    \/ SS_Mode
    \/ SS_SetRunning
    \/ SS_Return

(***************************************************************************)
(* Service handlers: bridge.py 305-404. Each handler is one action; the    *)
(* request and what the engine answers are its inputs, resp is the request *)
(* with the response and the engine calls the handler made.                *)
(***************************************************************************)
NoResp == [op |-> "none"]

SvcInitState == resp = NoResp /\ unconfirmed = FALSE

\* An array of n numbers.
Array(n) == [i \in 1..n |-> 0]

PosArrays == {Array(n) : n \in (PosLen - ArityDev)..(PosLen + ArityDev)}

RotArrays == {Array(n) : n \in (RotLen - ArityDev)..(RotLen + ArityDev)}

GameStates == [state : {"menu", "scenario", "freeroam"},
               scenario_state : {"absent", "running", "paused"}]

\* The engine's vehicles, in the order of its mapping.
EngineVehicles ==
    {v \in SeqsUpTo(1..MaxVehicles, MaxVehicles) :
        \A i, j \in 1..Len(v) : i # j => v[i] # v[j]}

\* running taken from scenario_state outside the 'scenario' branch.
ScenarioStateLoose(game_state, vehicles) ==
    [loaded |-> game_state.state = "scenario",
     running |-> game_state.scenario_state = "running",
     vehicle_ids |-> IF game_state.state = "scenario" THEN vehicles ELSE <<>>,
     engine_calls |-> <<"get_gamestate">>]

\* get_scenario_state (305-323): the response.state fields and the engine
\* calls made, given what get_gamestate and get_current_vehicles return.
ScenarioState(game_state, vehicles) ==
    LET r0 == [loaded |-> FALSE, running |-> FALSE, vehicle_ids |-> <<>>,
               engine_calls |-> <<"get_gamestate">>]
    IN  IF game_state.state = "scenario"
          THEN LET r1 == [r0 EXCEPT !.loaded = TRUE,
                                    !.vehicle_ids = vehicles,
                                    !.engine_calls = Append(@, "get_current_vehicles")]
               IN  IF game_state.scenario_state # "absent"
                     THEN [r1 EXCEPT !.running = (game_state.scenario_state = "running"),
                                     !.engine_calls = Append(@, "get_scenario_name")]
                     ELSE r1
          ELSE r0

GetScenarioState ==
    \E game_state \in GameStates, vehicles \in EngineVehicles :
        /\ resp' = [op |-> "get_scenario_state", game_state |-> game_state,
                 engine_vehicles |-> vehicles,
                 state |-> ScenarioState(game_state, vehicles)]
        /\ UNCHANGED unconfirmed

\* spawn_new_vehicle without the length checks of lines 335-342.
SpawnUnchecked(file_exists, pos, rot_quat) ==
    IF ~file_exists
      THEN [success |-> FALSE, engine_calls |-> <<>>]
      ELSE [success |-> TRUE, engine_calls |-> <<"spawn_vehicle">>]

\* spawn_new_vehicle (325-350).
Spawn(file_exists, pos, rot_quat) ==
    IF ~file_exists THEN [success |-> FALSE, engine_calls |-> <<>>]
    ELSE IF Len(pos) # PosLen THEN [success |-> FALSE, engine_calls |-> <<>>]
    ELSE IF Len(rot_quat) # RotLen THEN [success |-> FALSE, engine_calls |-> <<>>]
    ELSE [success |-> TRUE, engine_calls |-> <<"spawn_vehicle">>]

SpawnNewVehicle ==
    \E file_exists \in BOOLEAN, pos \in PosArrays, rot_quat \in RotArrays :
        /\ resp' = [op |-> "spawn_vehicle", file_exists |-> file_exists,
                    pos |-> pos, rot_quat |-> rot_quat,
                    out |-> Spawn(file_exists, pos, rot_quat)]
        /\ UNCHANGED unconfirmed

\* teleport_vehicle (352-368): engine_ok is what the engine's teleport returns.
Teleport(pos, rot_quat, engine_ok) ==
    IF Len(pos) # PosLen THEN [success |-> FALSE, engine_calls |-> <<>>]
    ELSE IF Len(rot_quat) # RotLen THEN [success |-> FALSE, engine_calls |-> <<>>]
    ELSE [success |-> engine_ok, engine_calls |-> <<"teleport_vehicle">>]

TeleportVehicle ==
    \E pos \in PosArrays, rot_quat \in RotArrays, engine_ok \in BOOLEAN :
        /\ resp' = [op |-> "teleport_vehicle", pos |-> pos, rot_quat |-> rot_quat,
                    engine_ok |-> engine_ok,
                    out |-> Teleport(pos, rot_quat, engine_ok)]
        /\ UNCHANGED unconfirmed

\* What the engine's pause / resume call does.
EngineOutcomes == {"ok", "BNGError", "OtherError"}

\* pause / resume with no except clause.
ChangeStateNoCatch(outcome) ==
    IF outcome = "ok"
      THEN [success |-> TRUE, responded |-> TRUE, escaped |-> FALSE]
      ELSE [success |-> FALSE, responded |-> FALSE, escaped |-> TRUE]

\* pause (382-392) and resume (394-404): only BNGError is caught.
ChangeState(outcome) ==
    CASE outcome = "ok" -> [success |-> TRUE, responded |-> TRUE, escaped |-> FALSE]
      [] outcome = "BNGError" ->
            [success |-> FALSE, responded |-> TRUE, escaped |-> FALSE]
      [] OTHER -> [success |-> FALSE, responded |-> FALSE, escaped |-> TRUE]

Pause ==
    \E outcome \in EngineOutcomes :
        /\ resp' = [op |-> "pause", outcome |-> outcome, out |-> ChangeState(outcome)]
        /\ unconfirmed' = (unconfirmed \/ outcome = "BNGError")

Resume ==
    \E outcome \in EngineOutcomes :
        /\ resp' = [op |-> "resume", outcome |-> outcome, out |-> ChangeState(outcome)]
        /\ unconfirmed' = (unconfirmed \/ outcome = "BNGError")

\* get_current_vehicles (370-380).
GetCurrentVehicles ==
    \E vehicles \in EngineVehicles :
        /\ resp' = [op |-> "get_current_vehicles", engine_vehicles |-> vehicles,
                    vehicles |-> vehicles,
                    engine_calls |-> <<"get_current_vehicles_info">>]
        /\ UNCHANGED unconfirmed

(***************************************************************************)
(* _setup_sensor_defs(sensor_paths): bridge.py 72-84. A sensor-definition  *)
(* document is a function from some of the keys to values; a file is the   *)
(* document load_json returns for a path, or is missing.                   *)
(***************************************************************************)
DefKeys == 1..NumKeys

DefVals == 1..NumVals

DefDocs == UNION {[K -> DefVals] : K \in SUBSET DefKeys}

\* sensor_defs = dict()
EmptyDefs == [k \in {} |-> 0]

DefFiles == {[found |-> TRUE, doc |-> d] : d \in DefDocs}
                \cup {[found |-> FALSE, doc |-> EmptyDefs]}

\* An update that keeps the value a key already has.
UpdateKeepFirst(d, s) ==
    [k \in DOMAIN d \cup DOMAIN s |-> IF k \in DOMAIN d THEN d[k] ELSE s[k]]

\* d.update(s) (line 83).
Update(d, s) ==
    [k \in DOMAIN d \cup DOMAIN s |-> IF k \in DOMAIN s THEN s[k] ELSE d[k]]

DefsInitState ==
    /\ sd_pc = "idle"
    /\ sensor_paths = <<>>
    /\ sd_i = 0
    /\ sensor_defs = EmptyDefs

\* Lines 73-80: an empty (or absent) sensor_paths stands for the default
\* path, whose file is default.
SetupSensorDefs ==
    /\ sd_pc = "idle"
    /\ \E paths \in SeqsUpTo(DefFiles, MaxPaths), default \in DefFiles :
          sensor_paths' = IF paths = <<>> THEN <<default>> ELSE paths
    /\ sensor_defs' = EmptyDefs
    /\ sd_i' = 1
    /\ sd_pc' = "loop"

\* Lines 81-83: one turn of the loop; load_json raises FileNotFoundError for
\* a missing file, which _setup_sensor_defs does not catch.
SetupLoad ==
    /\ sd_pc = "loop"
    /\ sd_i <= Len(sensor_paths)
    /\ IF sensor_paths[sd_i].found
         THEN /\ sensor_defs' = Update(sensor_defs, sensor_paths[sd_i].doc)
              /\ sd_i' = sd_i + 1
              /\ sd_pc' = "loop"
         ELSE /\ sd_pc' = "raised"
              /\ UNCHANGED <<sensor_defs, sd_i>>
    /\ UNCHANGED sensor_paths

\* Line 84: self._sensor_defs = sensor_defs.
SetupDone ==
    /\ sd_pc = "loop"
    /\ sd_i > Len(sensor_paths)
    /\ sd_pc' = "done"
    /\ UNCHANGED <<sensor_paths, sd_i, sensor_defs>>

(***************************************************************************)
(* main() and work(): bridge.py 459-473, 502-508, and the start_scenario   *)
(* service (299-303). The main thread makes the optional startup           *)
(* start_scenario call and then runs work(); the services run in the       *)
(* transport's threads from __init__ on, so a start_scenario request       *)
(* interleaves with the main thread statement by statement. One            *)
(* start_scenario call is in progress at a time.                           *)
(***************************************************************************)
NoWorkPre == [snap |-> NoSnapshot, calls |-> 0, busy |-> FALSE, tick |-> 0]

\* The bridge as the tick that begins now finds it.
WorkPre == [snap |-> Snapshot, calls |-> calls,
            busy |-> (ss_pc \notin {"idle", "ret_abort", "ret_ok", "ret_raised"}),
            tick |-> wk_pre.tick + 1]

WorkInitState ==
    /\ main_pc = "init"
    /\ caller = "none"
    /\ shutdown = FALSE
    /\ now = 0
    /\ current_time = 0
    /\ wk_k = 0
    /\ wk_list = <<>>
    /\ wk_live = FALSE
    /\ wk_log = <<>>
    /\ wk_pre = NoWorkPre

tickVars == <<now, current_time, wk_k, wk_list, wk_live, wk_log, wk_pre>>

\* Lines 504-508: with a scenario argument main calls start_scenario (line
\* 278 is its first statement), without one it goes on to work().
MainArgv ==
    /\ main_pc = "init"
    /\ \/ /\ ss_pc = "idle"
          /\ SS_Begin
          /\ caller' = "main"
          /\ main_pc' = "startup"
       \/ /\ main_pc' = "work"
          /\ UNCHANGED <<bridgeVars, callVars, caller>>
    /\ UNCHANGED <<shutdown, tickVars>>

\* The startup call is over: main goes on to work() (line 508), or the
\* error an engine call raised leaves main().
MainStartupReturn ==
    /\ caller = "main"
    /\ SS_Return
    /\ main_pc' = IF ss_pc = "ret_raised" THEN "crashed" ELSE "work"
    /\ caller' = "none"
    /\ UNCHANGED <<shutdown, tickVars>>

\* The signal that makes rospy.is_shutdown() true.
Shutdown ==
    /\ ~shutdown
    /\ main_pc \notin {"returned", "crashed"}
    /\ shutdown' = TRUE
    /\ UNCHANGED <<main_pc, caller, tickVars>>

\* Lines 460-462: work() reads self.running once.
WorkEnter ==
    /\ main_pc = "work"
    /\ main_pc' = IF running THEN "loop" ELSE "returned"
    /\ UNCHANGED <<caller, shutdown, tickVars>>

\* Line 464, the loop is left: work() and main() return.
WorkShutdown ==
    /\ main_pc = "loop"
    /\ shutdown
    /\ main_pc' = "returned"
    /\ UNCHANGED <<caller, shutdown, tickVars>>

\* Lines 464-465: a tick begins, current_time = rospy.Time.now().
TickBegin ==
    /\ main_pc = "loop"
    /\ ~shutdown
    /\ now < MaxTime
    /\ current_time' = now
    /\ wk_log' = <<>>
    /\ wk_k' = 1
    /\ wk_pre' = WorkPre
    /\ main_pc' = "frames"
    /\ UNCHANGED <<caller, shutdown, now, wk_list, wk_live>>

TickEv(e, epoch, vid, name, stamp) ==
    [ev |-> e, epoch |-> epoch, vid |-> vid, name |-> name, stamp |-> stamp]

\* A stamp read from the clock at each publication.
StampNow(taken, clock) == clock

\* The stamp the tick hands out: current_time (467, 470, 472).
Stamp(taken, clock) == taken

\* Lines 466-468: one static transform is stamped and broadcast.
TickFrame ==
    /\ main_pc = "frames"
    /\ wk_k <= Len(static_tf_frames)
    /\ LET f == static_tf_frames[wk_k]
       IN  wk_log' = Append(wk_log, TickEv("tf", f.epoch, f.vid, f.name,
                                           Stamp(current_time, now)))
    /\ wk_k' = wk_k + 1
    /\ UNCHANGED <<main_pc, caller, shutdown, now, current_time, wk_list, wk_live,
                   wk_pre>>

\* Lines 469-470, once the loop over the static transforms is exhausted.
TickVehicle ==
    /\ main_pc = "frames"
    /\ wk_k > Len(static_tf_frames)
    /\ wk_log' = IF vehicle_publisher # NoPublisher
                   THEN Append(wk_log, TickEv("vehicle", vehicle_publisher.epoch,
                                              vehicle_publisher.vid, 0,
                                              Stamp(current_time, now)))
                   ELSE wk_log
    /\ main_pc' = "bind"
    /\ UNCHANGED <<caller, shutdown, now, current_time, wk_k, wk_list, wk_live,
                   wk_pre>>

\* Line 471: the for statement takes the list object self._publishers names.
TickBind ==
    /\ main_pc = "bind"
    /\ wk_live' = TRUE
    /\ wk_list' = <<>>
    /\ wk_k' = 1
    /\ main_pc' = "pubs"
    /\ UNCHANGED <<caller, shutdown, now, current_time, wk_log, wk_pre>>

\* A loop that runs over a copy the tick does not refresh.
IteratedListStale == wk_list

\* The list object the loop of line 471 runs over: self._publishers as long
\* as no start_scenario has put a new list in its place, else the old one.
IteratedList == IF wk_live THEN publishers ELSE wk_list

\* Line 472: one publisher publishes.
TickPublish ==
    /\ main_pc = "pubs"
    /\ wk_k <= Len(IteratedList)
    /\ LET pub == IteratedList[wk_k]
       IN  wk_log' = Append(wk_log, TickEv(pub.kind, pub.epoch, pub.vid, pub.name,
                                           Stamp(current_time, now)))
    /\ wk_k' = wk_k + 1
    /\ UNCHANGED <<main_pc, caller, shutdown, now, current_time, wk_list, wk_live,
                   wk_pre>>

\* Line 473, once the loop over the publishers is exhausted: rate.sleep().
TickSleep ==
    /\ main_pc = "pubs"
    /\ wk_k > Len(IteratedList)
    /\ now' = IF now < MaxTime THEN now + 1 ELSE now
    /\ wk_live' = FALSE
    /\ wk_list' = <<>>
    /\ main_pc' = "loop"
    /\ UNCHANGED <<caller, shutdown, current_time, wk_k, wk_log, wk_pre>>

\* Time passes while a tick is at work.
Tock ==
    /\ main_pc \in {"frames", "bind", "pubs"}
    /\ now < MaxTime
    /\ now' = now + 1
    /\ UNCHANGED <<main_pc, caller, shutdown, current_time, wk_k, wk_list, wk_live,
                   wk_log, wk_pre>>

\* A response with the lifecycle's outcome in it.
StartScenarioResponseGranular(ret) ==
    [success |-> (ret = "ret_ok"), responded |-> (ret # "ret_raised"),
     escaped |-> (ret = "ret_raised")]

\* start_scenario_from_req (299-303) once start_scenario is over: the
\* response it returns, or the error that leaves it.
StartScenarioResponse(ret) ==
    [success |-> TRUE, responded |-> (ret # "ret_raised"),
     escaped |-> (ret = "ret_raised")]

\* Line 300: a start_scenario request arrives and the call begins. Line 278
\* names a new list: a loop of line 471 under way keeps the old one.
StartScenarioFromReq ==
    /\ caller = "none"
    /\ ~shutdown
    /\ main_pc \notin {"startup", "returned", "crashed"}
    /\ SS_Begin
    /\ caller' = "service"
    /\ wk_list' = IF wk_live THEN publishers ELSE wk_list
    /\ wk_live' = FALSE
    /\ UNCHANGED <<main_pc, shutdown, now, current_time, wk_k, wk_log, wk_pre>>

\* Lines 301-303.
StartScenarioRespond ==
    /\ caller = "service"
    /\ SS_Return
    /\ resp' = [op |-> "start_scenario", lifecycle |-> ss_pc,
                out |-> StartScenarioResponse(ss_pc)]
    /\ caller' = "none"
    /\ UNCHANGED <<main_pc, shutdown, tickVars>>

(***************************************************************************)
(* Specifications                                                          *)
(***************************************************************************)
Init ==
    /\ StepInitState
    /\ AttachInitState
    /\ BridgeInitState
    /\ CallInitState
    /\ SvcInitState
    /\ DefsInitState
    /\ WorkInitState

\* The scenario lifecycle, every engine call returning.
lifeRest == <<stepVars, attachVars, svcVars, defsVars, workVars>>

Next ==
    \/ SS_Begin /\ UNCHANGED lifeRest
    \/ SS_Load(Docs) /\ UNCHANGED lifeRest
    \/ SS_DecodeVehicle /\ UNCHANGED lifeRest
    \/ SS_DecodeOptions /\ UNCHANGED lifeRest
    \/ SS_Engine /\ UNCHANGED lifeRest
    \/ SS_Automation /\ UNCHANGED lifeRest
    \/ SS_AutomationDone /\ UNCHANGED lifeRest
    \/ SS_Hook /\ UNCHANGED lifeRest
    \/ SS_Mode /\ UNCHANGED lifeRest
    \/ SS_SetRunning /\ UNCHANGED lifeRest
    \/ SS_Return /\ UNCHANGED lifeRest

Spec == Init /\ [][Next]_vars

\* The scenario lifecycle with engine calls that may raise.
NextFault ==
    \/ Next
    \/ SS_Raise /\ UNCHANGED lifeRest

SpecFault == Init /\ [][NextFault]_vars

\* The step action alone.
stepRest == <<attachVars, bridgeVars, callVars, svcVars, defsVars, workVars>>

NextStep ==
    \/ StepBegin /\ UNCHANGED stepRest
    \/ StepCancel /\ UNCHANGED stepRest
    \/ StepCheck /\ UNCHANGED stepRest
    \/ StepEngine /\ UNCHANGED stepRest
    \/ StepFeedback /\ UNCHANGED stepRest
    \/ StepFinish /\ UNCHANGED stepRest

SpecStep == Init /\ [][NextStep]_vars

\* The classical sensor attachment alone.
attachRest == <<stepVars, bridgeVars, callVars, svcVars, defsVars, workVars>>

NextAttach ==
    \/ AttachCall /\ UNCHANGED attachRest
    \/ AttachRun /\ UNCHANGED attachRest

SpecAttach == Init /\ [][NextAttach]_vars

\* The service handlers beside the scenario lifecycle.
svcRest == <<stepVars, attachVars, bridgeVars, callVars, defsVars, workVars>>

NextSvc ==
    \/ Lifecycle(PlainDocs) /\ UNCHANGED lifeRest
    \/ SS_Raise /\ UNCHANGED lifeRest
    \/ GetScenarioState /\ UNCHANGED svcRest
    \/ SpawnNewVehicle /\ UNCHANGED svcRest
    \/ TeleportVehicle /\ UNCHANGED svcRest
    \/ Pause /\ UNCHANGED svcRest
    \/ Resume /\ UNCHANGED svcRest
    \/ GetCurrentVehicles /\ UNCHANGED svcRest

SpecSvc == Init /\ [][NextSvc]_vars

\* The sensor-definition catalog alone.
defsRest == <<stepVars, attachVars, bridgeVars, callVars, svcVars, workVars>>

NextDefs ==
    \/ SetupSensorDefs /\ UNCHANGED defsRest
    \/ SetupLoad /\ UNCHANGED defsRest
    \/ SetupDone /\ UNCHANGED defsRest

SpecDefs == Init /\ [][NextDefs]_vars

\* The node: the main thread with the publish loop, beside the
\* start_scenario service.
nodeRest == <<stepVars, attachVars, defsVars>>

workRest == <<stepVars, attachVars, bridgeVars, callVars, svcVars, defsVars>>

NextNode ==
    \/ MainArgv /\ UNCHANGED <<nodeRest, svcVars>>
    \/ MainStartupReturn /\ UNCHANGED <<nodeRest, svcVars>>
    \/ StartScenarioFromReq /\ UNCHANGED <<nodeRest, svcVars>>
    \/ StartScenarioRespond /\ UNCHANGED <<nodeRest, unconfirmed>>
    \/ SS_Load(NodeDocs) /\ UNCHANGED lifeRest
    \/ SS_DecodeVehicle /\ UNCHANGED lifeRest
    \/ SS_DecodeOptions /\ UNCHANGED lifeRest
    \/ SS_Engine /\ UNCHANGED lifeRest
    \/ SS_Automation /\ UNCHANGED lifeRest
    \/ SS_AutomationDone /\ UNCHANGED lifeRest
    \/ SS_Hook /\ UNCHANGED lifeRest
    \/ SS_Mode /\ UNCHANGED lifeRest
    \/ SS_SetRunning /\ UNCHANGED lifeRest
    \/ SS_Raise /\ UNCHANGED lifeRest
    \/ Shutdown /\ UNCHANGED workRest
    \/ WorkEnter /\ UNCHANGED workRest
    \/ WorkShutdown /\ UNCHANGED workRest
    \/ TickBegin /\ UNCHANGED workRest
    \/ TickFrame /\ UNCHANGED workRest
    \/ TickVehicle /\ UNCHANGED workRest
    \/ TickBind /\ UNCHANGED workRest
    \/ TickPublish /\ UNCHANGED workRest
    \/ TickSleep /\ UNCHANGED workRest
    \/ Tock /\ UNCHANGED workRest

SpecNode == Init /\ [][NextNode]_vars

(***************************************************************************)
(* The step controller (SpecStep)                                          *)
(***************************************************************************)
StepEv(e, n) == [ev |-> e, n |-> n]

IsPrefix(s, t) == Len(s) <= Len(t) /\ \A i \in 1..Len(s) : s[i] = t[i]

Count(log, e) == Cardinality({i \in 1..Len(log) : log[i].ev = e})

\* The chunk sizes the goal is split into: min(remaining, F) until nothing
\* remains.
RECURSIVE Chunks(_, _)
Chunks(remaining, F) ==
    IF remaining <= 0 THEN <<>>
    ELSE <<Min(remaining, F)>> \o Chunks(remaining - Min(remaining, F), F)

RECURSIVE SumSeq(_)
SumSeq(s) == IF s = <<>> THEN 0 ELSE s[1] + SumSeq(Tail(s))

\* One engine call and one feedback with the cumulative count per chunk.
RECURSIVE ChunkLog(_, _)
ChunkLog(chunks, done) ==
    IF chunks = <<>> THEN <<>>
    ELSE <<StepEv("step", chunks[1]), StepEv("feedback", done + chunks[1])>>
            \o ChunkLog(Tail(chunks), done + chunks[1])

CeilDiv(N, F) == (N + F - 1) \div F

\* C1: a goal with positive N and F that is never cancelled makes ceil(N/F)
\* engine step calls, the k-th of size min(N - done, F), summing to N, each
\* followed by one feedback with the cumulative count, and after the last
\* feedback one success result: at every moment the log is a prefix of that
\* sequence, and the finished goal's log is all of it.
C1_ChunksThenSuccess ==
    (st_pc # "idle" /\ total_number_of_steps > 0 /\ feedback_cycle_size > 0
        /\ ~preempt_requested)
    => LET N == total_number_of_steps
           F == feedback_cycle_size
           chunks == Chunks(N, F)
           expected == Append(ChunkLog(chunks, 0), StepEv("succeeded", N))
       IN  /\ Len(chunks) = CeilDiv(N, F)
           /\ SumSeq(chunks) = N
           /\ IsPrefix(as_log, expected)
           /\ st_pc = "done" => as_log = expected

C1_Witness ==
    /\ st_pc = "done"
    /\ total_number_of_steps = 5
    /\ feedback_cycle_size = 2
    /\ ~preempt_requested
    /\ as_log = <<StepEv("step", 2), StepEv("feedback", 2), StepEv("step", 2),
                  StepEv("feedback", 4), StepEv("step", 1), StepEv("feedback", 5),
                  StepEv("succeeded", 5)>>

C2_Log ==
    Count(as_log, "preempted") > 0
    => /\ as_log[Len(as_log)].ev = "preempted"
       /\ Count(as_log, "preempted") = 1
       /\ Count(as_log, "step") = st_i
       /\ Count(as_log, "feedback") = st_i
       /\ Count(as_log, "succeeded") = 0
       /\ st_pc \in {"finish", "done"}

C2_Check ==
    (st_pc = "check" /\ st_i < imax /\ preempt_requested)
    => /\ as_log' = Append(as_log, StepEv("preempted", step_counter))
       /\ st_pc' = "finish"

\* C2: a cancellation pending when chunk k = st_i + 1 is about to be
\* dispatched is seen by the check before that chunk: the goal is marked
\* preempted as the next thing step() does, no engine step call follows,
\* k - 1 engine calls and k - 1 feedbacks have been made, and no success
\* result is emitted.
C2_PreemptBeforeChunk == [] C2_Log /\ [][C2_Check]_vars

C2_Witness ==
    /\ st_pc = "done"
    /\ total_number_of_steps = 5
    /\ feedback_cycle_size = 2
    /\ as_log = <<StepEv("step", 2), StepEv("feedback", 2), StepEv("preempted", 2)>>

\* C3: a goal whose feedback_cycle_size is zero or negative makes no turn of
\* the loop, no engine step call and no success result.
C3_FailFast ==
    (st_pc # "idle" /\ feedback_cycle_size <= 0)
    => /\ st_pc \notin {"engine", "feedback"}
       /\ Count(as_log, "step") = 0
       /\ Count(as_log, "succeeded") = 0

(***************************************************************************)
(* The service handlers (SpecSvc)                                          *)
(***************************************************************************)
BadArity == Len(resp.pos) # 3 \/ Len(resp.rot_quat) # 4

Rejected == ~resp.out.success /\ resp.out.engine_calls = <<>>

\* C4 as stated: spawn_vehicle and teleport_vehicle answer a request whose
\* position is not 3 long or whose orientation is not 4 long with
\* success=false and no engine call, and make the engine call exactly once
\* for every request with correct arities.
C4_ArityOnly ==
    resp.op \in {"spawn_vehicle", "teleport_vehicle"}
    => IF BadArity THEN Rejected ELSE resp.out.engine_calls = <<resp.op>>

\* C4 amended: as above, but spawn_vehicle makes its engine call only when
\* the vehicle config file also exists; without the file it is rejected
\* with no engine call whatever the arities.
C4_ArityAndFile ==
    resp.op \in {"spawn_vehicle", "teleport_vehicle"}
    => IF BadArity \/ (resp.op = "spawn_vehicle" /\ ~resp.file_exists)
         THEN Rejected
         ELSE resp.out.engine_calls = <<resp.op>>

C4_Witness ==
    /\ resp.op = "spawn_vehicle"
    /\ resp.file_exists
    /\ Len(resp.pos) = 3
    /\ Len(resp.rot_quat) = 5
    /\ ~resp.out.success
    /\ resp.out.engine_calls = <<>>

\* C9: get_scenario_state reports loaded=false, running=false and no
\* vehicle ids when the engine's state is not "scenario"; when it is, it
\* reports loaded=true with the engine's vehicle ids and running=true
\* exactly when scenario_state is present and "running".
C9_ScenarioState ==
    resp.op = "get_scenario_state"
    => LET g == resp.game_state
           r == resp.state
       IN  IF g.state = "scenario"
             THEN /\ r.loaded
                  /\ r.vehicle_ids = resp.engine_vehicles
                  /\ r.running <=> (g.scenario_state = "running")
             ELSE /\ ~r.loaded
                  /\ ~r.running
                  /\ r.vehicle_ids = <<>>

C9_Witness ==
    /\ resp.op = "get_scenario_state"
    /\ resp.game_state.state = "freeroam"
    /\ resp.game_state.scenario_state = "running"
    /\ resp.engine_vehicles # <<>>
    /\ ~resp.state.loaded
    /\ ~resp.state.running
    /\ resp.state.vehicle_ids = <<>>

C10_Response ==
    resp.op \in {"pause", "resume"}
    => /\ (resp.out.responded /\ resp.out.success) <=> (resp.outcome = "ok")
       /\ resp.outcome = "BNGError"
            => resp.out.responded /\ ~resp.out.success /\ ~resp.out.escaped

C10_Frame ==
    (resp' # resp /\ resp'.op \in {"pause", "resume"})
    => UNCHANGED <<bridgeVars, callVars>>

\* C10: pause and resume answer success=true exactly when the engine call
\* returns; on the engine's own error they answer success=false, the error
\* stays inside the handler, and the step leaves the run flag, the
\* publisher list, the static-frame list and a start_scenario call in
\* progress as they were.
C10_PauseResume == [] C10_Response /\ [][C10_Frame]_vars

\* A request is served after pause / resume failed, the bridge's state
\* still in place.
C10_Witness ==
    /\ unconfirmed
    /\ resp.op = "get_current_vehicles"
    /\ running
    /\ publishers # <<>>

(***************************************************************************)
(* The scenario lifecycle (Spec)                                           *)
(***************************************************************************)
\* C5: once a start_scenario call has returned, every publisher in the
\* list was made by that latest call.
C5_OnlyLatestPublishers ==
    (ss_pc = "idle" \/ Returned)
    => \A i \in 1..Len(publishers) : publishers[i].epoch = calls

\* The second scenario has started with publishers of its own, the first
\* one's were in the list when the call began.
C5_Witness ==
    /\ ss_pc = "ret_ok"
    /\ calls = 2
    /\ publishers # <<>>
    /\ ss_pre.publishers # <<>>

\* C6: every start_scenario call empties the static-frame list before it
\* builds new state, so a started scenario leaves only its own frames.
C6_FramesReset ==
    /\ ss_pc = "load" => static_tf_frames = <<>>
    /\ ss_pc = "ret_ok"
        => \A i \in 1..Len(static_tf_frames) : static_tf_frames[i].epoch = calls

\* C7: a start_scenario call that finds no scenario file logs an error,
\* makes no engine call and leaves the publisher list, the static-frame
\* list, the vehicle publisher and the run flag as they were at its start.
C7_AbortLeavesState ==
    ss_pc = "ret_abort"
    => /\ ss_log = <<Ev("logerr", 0, 0)>>
       /\ Snapshot = ss_pre

(***************************************************************************)
(* The classical sensor attachment (SpecAttach)                            *)
(***************************************************************************)
\* What the attachment is to do: the primary specs in order, then each
\* derived spec in order, a derived spec whose base is not attached being
\* logged and left out.
RECURSIVE NoiseResolved(_, _, _)
NoiseResolved(noise, k, acc) ==
    IF k > Len(noise) THEN acc
    ELSE IF noise[k].base \in acc.sensors
    THEN NoiseResolved(noise, k + 1,
            [acc EXCEPT !.sensors = @ \cup {noise[k].name},
                        !.attached = Append(@, noise[k].name)])
    ELSE NoiseResolved(noise, k + 1,
            [acc EXCEPT !.errors = Append(@, noise[k].base)])

\* C8: a derived spec whose base sensor is not attached is logged and not
\* attached, and every other spec of the vehicle is attached.
C8_UnresolvedSkipped ==
    at_pc = "done"
    => at_out = NoiseResolved(SelectSeq(sensors_classical, LAMBDA s : s.base # 0), 1,
                    AttachPrimary(SelectSeq(sensors_classical, LAMBDA s : s.base = 0),
                                  1, NoAttach))

(***************************************************************************)
(* The main thread and the publish loop (SpecNode)                         *)
(***************************************************************************)
InTick == main_pc \in {"frames", "bind", "pubs"}

\* C11: work() returns only after the shutdown signal, and no tick is made
\* while no scenario has been marked running; so a node that is up stays in
\* the loop, ready to tick once a start_scenario call sets the run flag.
C11_AlwaysOn ==
    /\ main_pc = "returned" => shutdown
    /\ InTick => running

\* C12: the start_scenario service answers every request whose lifecycle
\* call returns, the call that found no scenario file included, with
\* success=true; it never answers success=false. It gives no answer exactly
\* when an error left the lifecycle call.
C12_AlwaysSuccess ==
    resp.op = "start_scenario"
    => /\ resp.out.responded <=> resp.lifecycle \in {"ret_ok", "ret_abort"}
       /\ resp.out.responded => resp.out.success
       /\ resp.out.escaped <=> ~resp.out.responded

\* A request for a missing file was answered success=true, nothing started.
C12_Witness ==
    /\ resp.op = "start_scenario"
    /\ resp.lifecycle = "ret_abort"
    /\ resp.out.responded
    /\ resp.out.success
    /\ ~running
    /\ calls = 1

(***************************************************************************)
(* The sensor-definition catalog (SpecDefs)                                *)
(***************************************************************************)
SetMax(S) == CHOOSE m \in S : \A x \in S : x <= m

\* The documents among the first n of the list that have key k.
DocsWith(k, n) == {i \in 1..n : k \in DOMAIN sensor_paths[i].doc}

\* C13: the catalog is the key-wise merge of the documents in list order: a
\* key is in the catalog exactly when some document has it, and its value
\* is the one of the last document that has it (so a key of one document
\* only keeps that document's value). It holds of the documents merged so
\* far at every turn of the loop, and of all of them at the end.
C13_Merge ==
    sd_pc \in {"loop", "done", "raised"}
    => LET n == sd_i - 1
       IN  /\ sd_pc = "done" => n = Len(sensor_paths)
           /\ \A k \in DefKeys :
                /\ k \in DOMAIN sensor_defs <=> DocsWith(k, n) # {}
                /\ DocsWith(k, n) # {}
                    => sensor_defs[k] = sensor_paths[SetMax(DocsWith(k, n))].doc[k]

\* Two documents with one overlapping key: the catalog has the second
\* document's value for it, and the first one's value for the other key.
C13_Witness ==
    /\ sd_pc = "done"
    /\ Len(sensor_paths) = 2
    /\ DOMAIN sensor_paths[1].doc = {1, 2}
    /\ DOMAIN sensor_paths[2].doc = {1}
    /\ sensor_paths[1].doc[1] = 1
    /\ sensor_paths[1].doc[2] = 1
    /\ sensor_paths[2].doc[1] = 2
    /\ sensor_defs[1] = 2
    /\ sensor_defs[2] = 1

(***************************************************************************)
(* The order of the lifecycle (SpecFault, Spec)                            *)
(***************************************************************************)
\* The places of the events e in this call's log.
At(e) == {i \in 1..Len(ss_log) : ss_log[i].ev = e}

InCall == ss_pc # "idle"

EngineStarted == At("start_scenario") # {}

\* C14: within a start_scenario call the classical sensors of every vehicle
\* are attached and every vehicle is added before the engine's make, load
\* and start calls, which follow each other in that order; and until the
\* engine's start call has returned no automation sensor is attached, no
\* static transform is stored and no automation-sensor publisher is
\* registered.
C14_LifecycleOrder ==
    InCall
    => /\ \A m \in At("make") :
            /\ \A i \in At("attach_classical") \cup At("add_vehicle") : i < m
            /\ \A v \in 1..Len(scenario_spec.vehicles) :
                    \E i, j \in 1..(m - 1) :
                        /\ i < j
                        /\ ss_log[i] = Ev("attach_classical", v, 0)
                        /\ ss_log[j] = Ev("add_vehicle", v, 0)
            /\ m + 2 <= Len(ss_log)
            /\ ss_log[m + 1].ev = "load_scenario"
            /\ ss_log[m + 2].ev = "start_scenario"
       /\ At("load_scenario") \cup At("start_scenario") # {} => At("make") # {}
       /\ \A a \in At("attach_automation") : \E e \in At("start_scenario") : e < a
       /\ ~EngineStarted
            => /\ static_tf_frames = ss_pre.static_tf_frames
               /\ \A i \in 1..Len(publishers) : publishers[i].kind # "sensor"

\* Two vehicles with an automation sensor each: the whole order in one log.
C14_Witness ==
    /\ ss_pc = "ret_ok"
    /\ ss_log = <<Ev("attach_classical", 1, 0), Ev("add_vehicle", 1, 0),
                  Ev("attach_classical", 2, 0), Ev("add_vehicle", 2, 0),
                  Ev("make", 0, 0), Ev("load_scenario", 0, 0),
                  Ev("start_scenario", 0, 0),
                  Ev("attach_automation", 1, 1), Ev("attach_automation", 2, 1)>>
    /\ Len(static_tf_frames) = 2
    /\ Len(publishers) = 2

HookNames == {"weather_presets", "tod", "network_vizualization"}

\* The hooks this call has run, in the order it ran them.
HooksRun == [i \in 1..Len(SelectSeq(ss_log, LAMBDA e : e.ev \in HookNames)) |->
                SelectSeq(ss_log, LAMBDA e : e.ev \in HookNames)[i].ev]

\* One hook for each optional field the document has, in the order of the
\* fields; the network visualization counts as asked for when it is "on".
HooksDue(d) ==
    (IF d.weather THEN <<"weather_presets">> ELSE <<>>)
        \o (IF d.tod THEN <<"tod">> ELSE <<>>)
        \o (IF d.netviz = "on" THEN <<"network_vizualization">> ELSE <<>>)

\* C15: the post-start hooks run in the order they were queued, each once,
\* after the automation sensors are attached and before the optional pause
\* call; there is a hook for each optional field the document has (weather
\* preset, time of day, network visualization) and none for an absent one,
\* and no absent field is an error.
C15_HooksInOrder ==
    /\ ss_pc \in {"set_running", "ret_ok"}
        => /\ HooksRun = HooksDue(scenario_spec)
           /\ \A h \in 1..Len(ss_log) :
                ss_log[h].ev \in HookNames
                => /\ \A a \in At("attach_automation") : a < h
                   /\ \A q \in At("pause") : h < q
    /\ InCall /\ ss_pc # "ret_abort" => At("logerr") = {}

PauseDue == IF scenario_spec.mode = "paused" THEN 1 ELSE 0

\* C16: a start_scenario call whose document loads issues the engine's
\* pause call exactly when the document's mode is 'paused', and the run
\* flag is true once the call has returned, paused or not; the flag is set
\* as the last step only: until then it is what it was when the call began,
\* and when it is set the engine calls, the automation sensors, the hooks
\* and the pause call (if due) of this start are all done.
C16_PauseAndRunFlag ==
    /\ InCall => (At("pause") # {} => scenario_spec.mode = "paused")
    /\ InCall /\ ss_pc # "ret_ok" => running = ss_pre.running
    /\ ss_pc \in {"set_running", "ret_ok"}
        => /\ Cardinality(At("pause")) = PauseDue
           /\ At("pause") \subseteq {Len(ss_log)}
           /\ EngineStarted
           /\ ss_v > Len(scenario_spec.vehicles)
           /\ ss_h > Len(on_scenario_start)
    /\ ss_pc = "ret_ok" => running

\* A scenario started in paused mode: the pause call was made and the run
\* flag, false before, is true.
C16_Witness ==
    /\ ss_pc = "ret_ok"
    /\ scenario_spec.mode = "paused"
    /\ ss_log[Len(ss_log)] = Ev("pause", 0, 0)
    /\ running
    /\ ~ss_pre.running

(***************************************************************************)
(* The ticks of the publish loop (SpecNode)                                *)
(***************************************************************************)
\* What a tick that began at t broadcasts for the frames, publishes for the
\* vehicle publisher vp and publishes for the publishers, in their order.
TfEvents(frames, t) ==
    [i \in 1..Len(frames) |->
        TickEv("tf", frames[i].epoch, frames[i].vid, frames[i].name, t)]

VehicleEvents(vp, t) ==
    IF vp = NoPublisher THEN <<>> ELSE <<TickEv("vehicle", vp.epoch, vp.vid, 0, t)>>

PubEvents(pubs, t) ==
    [i \in 1..Len(pubs) |->
        TickEv(pubs[i].kind, pubs[i].epoch, pubs[i].vid, pubs[i].name, t)]

\* The parts of the tick's log.
TickTf == SelectSeq(wk_log, LAMBDA e : e.ev = "tf")

TickVeh == SelectSeq(wk_log, LAMBDA e : e.ev = "vehicle")

TickPubs == SelectSeq(wk_log, LAMBDA e : e.ev \in {"sensor", "network"})

Ticked == wk_pre.tick > 0

FramesDone == Ticked /\ main_pc \in {"bind", "pubs", "loop"}

TickDone == Ticked /\ main_pc = "loop"

\* C17: a tick first stamps and broadcasts every transform of the
\* static-frame list, then publishes the vehicle publisher if one is set,
\* then has every publisher of the publisher list publish once, in the
\* list's order, all with the timestamp taken when the tick began. Nothing
\* that was in the lists when the tick began is left out, and what the tick
\* handled beyond that is what a start_scenario call added meanwhile.
C17_TickOrder ==
    Ticked
    => /\ wk_log = TickTf \o TickVeh \o TickPubs
       /\ \A i \in 1..Len(wk_log) : wk_log[i].stamp = current_time
       /\ IsPrefix(TickTf, TfEvents(static_tf_frames, current_time))
       /\ Len(TickVeh) <= 1
       /\ FramesDone
            => /\ IsPrefix(TfEvents(wk_pre.snap.static_tf_frames, current_time), TickTf)
               /\ vehicle_publisher = wk_pre.snap.vehicle_publisher
                    => TickVeh = VehicleEvents(vehicle_publisher, current_time)
       /\ wk_pre.calls = calls
            => /\ IsPrefix(TickPubs, PubEvents(publishers, current_time))
               /\ TickDone
                    => IsPrefix(PubEvents(wk_pre.snap.publishers, current_time), TickPubs)

\* A whole tick over two frames, the vehicle publisher and two publishers,
\* the clock having moved on while the tick was at work.
C17_Witness ==
    /\ TickDone
    /\ current_time = 0
    /\ now = MaxTime
    /\ Snapshot = wk_pre.snap
    /\ Len(static_tf_frames) = 2
    /\ Len(publishers) = 2
    /\ vehicle_publisher # NoPublisher
    /\ wk_log = TfEvents(static_tf_frames, 0) \o VehicleEvents(vehicle_publisher, 0)
                    \o PubEvents(publishers, 0)

(***************************************************************************)
(* Who changes the shared lists (SpecNode)                                 *)
(***************************************************************************)
\* A step that changes the publisher list or the static-frame list.
Mutates == publishers' # publishers \/ static_tf_frames' # static_tf_frames

\* The step is one of a start_scenario call in progress, not one of the
\* publish loop, of the step action or of another handler's response.
ByStartScenario ==
    /\ ss_pc' \in {"load", "engine", "auto"}
    /\ wk_log' = wk_log /\ wk_k' = wk_k /\ current_time' = current_time
    /\ resp' = resp
    /\ UNCHANGED stepVars

C18_BeforeEngineStart == Mutates => ByStartScenario /\ ~EngineStarted'

\* C18 as stated: the publisher list and the static-frame list are changed
\* only inside a start_scenario call, and every change is made before the
\* engine's start-scenario call of that lifecycle.
C18_BeforeStarted == [][C18_BeforeEngineStart]_vars

C18_BeforeRunFlag ==
    Mutates
    => /\ ByStartScenario
       /\ running' = ss_pre'.running
       /\ ~EngineStarted'
            => /\ static_tf_frames' = static_tf_frames
               /\ \/ ss_pc = "idle" /\ publishers' = <<>>
                  \/ ss_pc = "decode"
                        /\ publishers' = Append(publishers, NetworkPublisher(calls))
       /\ EngineStarted'
            => /\ ss_pc = "auto"
               /\ IsPrefix(publishers, publishers')
               /\ IsPrefix(static_tf_frames, static_tf_frames')

\* C18 amended: the two lists are changed only inside a start_scenario
\* call, and every change is made before that call sets the run flag: the
\* new empty publisher list and the network publisher before the engine's
\* start-scenario call, the automation sensors' frames and publishers
\* after it.
C18_OnlyStartScenario == [][C18_BeforeRunFlag]_vars

\* A second start_scenario call, made while the first scenario is running,
\* has appended a frame and a publisher after its engine start call.
C18_Witness ==
    /\ ss_pc = "auto"
    /\ calls = 2
    /\ EngineStarted
    /\ running
    /\ Len(publishers) > 0
    /\ publishers[Len(publishers)].kind = "sensor"
    /\ Len(static_tf_frames) > Len(ss_pre.static_tf_frames)
    /\ InTick

(***************************************************************************)
(* A start_scenario call racing with a tick (SpecNode)                     *)
(***************************************************************************)
\* What a tick that began at t makes of the bridge as snap has it.
TickOf(snap, t) ==
    TfEvents(snap.static_tf_frames, t) \o VehicleEvents(snap.vehicle_publisher, t)
        \o PubEvents(snap.publishers, t)

\* A start_scenario call was at work when the tick began, or began during it.
Raced == wk_pre.busy \/ wk_pre.calls # calls

\* C19: the bridge's state is not swapped atomically. A tick that no
\* start_scenario call races with handles the bridge as it was when the
\* tick began, all of it and nothing else; a tick that a start_scenario
\* call interleaves with can publish a mix that the bridge never held at
\* one moment (the state C19_Witness describes is reached).
C19_MixOnlyByRace ==
    Ticked /\ ~Raced
    => /\ Snapshot = wk_pre.snap
       /\ IsPrefix(wk_log, TickOf(wk_pre.snap, current_time))
       /\ TickDone => wk_log = TickOf(wk_pre.snap, current_time)

\* One tick has published the first scenario's vehicle publisher and then,
\* alone, the sensor publisher of the first of the second scenario's two
\* vehicles: old with new, and a new list only partly filled.
C19_Witness ==
    /\ TickDone
    /\ Raced
    /\ calls = 2
    /\ Len(TickVeh) = 1
    /\ TickVeh[1].epoch = 1
    /\ TickPubs = PubEvents(<<SensorPublisher(2, 1, 1)>>, current_time)
    /\ publishers = <<SensorPublisher(2, 1, 1), SensorPublisher(2, 2, 1)>>
    /\ vehicle_publisher = [epoch |-> 2, vid |-> 2]

(***************************************************************************)
(* The vehicle publisher (SpecNode)                                        *)
(***************************************************************************)
\* C20: the bridge has one vehicle publisher at most and start_scenario
\* never clears it. Once a call is over it is the publisher of the last
\* vehicle of the document if the document has a vehicle, and still the
\* one the call found if the file was missing or the document has no
\* vehicle; a tick publishes it, once, whatever the publisher list holds.
C20_VehiclePublisherKept ==
    /\ InCall /\ ss_pre.vehicle_publisher # NoPublisher
        => vehicle_publisher # NoPublisher
    /\ ss_pc = "ret_abort" => vehicle_publisher = ss_pre.vehicle_publisher
    /\ ss_pc \in {"ret_ok", "ret_raised"}
        => vehicle_publisher =
             IF Len(scenario_spec.vehicles) >= 1
               THEN [epoch |-> calls, vid |-> Len(scenario_spec.vehicles)]
               ELSE ss_pre.vehicle_publisher
    /\ Ticked => Len(TickVeh) <= 1
    /\ FramesDone /\ ~Raced
        => TickVeh = VehicleEvents(vehicle_publisher, current_time)

\* The second start_scenario request named a missing file: the publisher
\* list is empty, and a tick made after it has published the vehicle
\* publisher of the first scenario's last vehicle and nothing else.
C20_Witness ==
    /\ resp.op = "start_scenario"
    /\ resp.lifecycle = "ret_abort"
    /\ calls = 2
    /\ ss_pc = "idle"
    /\ publishers = <<>>
    /\ vehicle_publisher = [epoch |-> 1, vid |-> 2]
    /\ TickDone
    /\ ~Raced
    /\ TickVeh = VehicleEvents(vehicle_publisher, current_time)
    /\ TickPubs = <<>>

(***************************************************************************)
(* The step controller under any timing of cancellation (SpecStep)         *)
(***************************************************************************)
\* The n of the events e of the step log, in order.
LogValues(e) ==
    [i \in 1..Len(SelectSeq(as_log, LAMBDA x : x.ev = e)) |->
        SelectSeq(as_log, LAMBDA x : x.ev = e)[i].n]

\* C21: for a goal with positive N and F, whenever the cancellation comes,
\* the steps asked of the engine never sum to more than N, every engine
\* step call has a size from 1 to F, the steps_completed of successive
\* feedbacks strictly increase, a success result is emitted only when the
\* sum is N, and the goal ends with exactly one of preempted and succeeded.
C21_StepInvariants ==
    (st_pc # "idle" /\ total_number_of_steps > 0 /\ feedback_cycle_size > 0)
    => LET sizes == LogValues("step")
           fbs == LogValues("feedback")
           ends == Count(as_log, "preempted") + Count(as_log, "succeeded")
       IN  /\ SumSeq(sizes) <= total_number_of_steps
           /\ SumSeq(sizes) = step_counter
           /\ \A i \in 1..Len(sizes) : sizes[i] \in 1..feedback_cycle_size
           /\ \A i \in 1..Len(fbs) : \A j \in 1..Len(fbs) : i < j => fbs[i] < fbs[j]
           /\ Count(as_log, "succeeded") > 0
                => SumSeq(sizes) = total_number_of_steps
           /\ ends <= 1
           /\ st_pc = "done" => ends = 1
           /\ ends = 1 => as_log[Len(as_log)].ev \in {"preempted", "succeeded"}

\* The cancellation came after the last check: the goal took all its steps
\* and succeeded, with no preempted result.
C21_Witness ==
    /\ st_pc = "done"
    /\ preempt_requested
    /\ total_number_of_steps = 5
    /\ feedback_cycle_size = 3
    /\ as_log = <<StepEv("step", 3), StepEv("feedback", 3), StepEv("step", 2),
                  StepEv("feedback", 5), StepEv("succeeded", 5)>>

====
